---- MODULE Spec2Model ----
(***************************************************************************)
(* Model of netlify/functions/webhook.js: the Telegram expense-tracker     *)
(* webhook.  One invocation of exports.handler is a sequence of steps, one *)
(* per awaited external call; the spreadsheet document is the only state   *)
(* that survives an invocation.                                            *)
(*                                                                         *)
(* Strings are sequences of one-character strings, JavaScript values are   *)
(* tagged records (JsStr, JsNum, JsUndefined, JsNaN), so that split, join, *)
(* parseInt, parseFloat, template literals and truthiness are computed the *)
(* way the code computes them.                                             *)
(***************************************************************************)
EXTENDS Integers, Sequences, FiniteSets, TLC

\* ------------------------------------------------------------------------
\* Bounds of the model
\* ------------------------------------------------------------------------
\* invocations of the handler in one behaviour
MaxRequests == 2
\* of these, invocations that enter the photo or the text pipeline
MaxPipelines == 1
\* new-year rollovers of the wall clock in one behaviour
MaxYearTicks == 1
\* invocations in one behaviour of the fair specification
MaxFairRequests == 1
\* invocations of the '/note' branch that overlap in time
MaxConcurrent == 2

\* ------------------------------------------------------------------------
\* Program constants
\* ------------------------------------------------------------------------
STANDARD_DEDUCTION_2025 == 14600
\* the year the wall clock shows when the model starts
StartYear == 2025

\* ------------------------------------------------------------------------
\* JavaScript values
\* ------------------------------------------------------------------------
JsStr(s) == [t |-> "string", n |-> 0, s |-> s]
JsNum(n) == [t |-> "number", n |-> n, s |-> <<>>]
JsUndefined == [t |-> "undefined", n |-> 0, s |-> <<>>]
JsNaN == [t |-> "NaN", n |-> 0, s |-> <<>>]

\* ToBoolean: undefined, NaN, 0 and '' are falsy
Truthy(v) ==
  CASE v.t = "undefined" -> FALSE
    [] v.t = "NaN" -> FALSE
    [] v.t = "number" -> v.n # 0
    [] OTHER -> v.s # <<>>

\* a || b
JsOr(a, b) == IF Truthy(a) THEN a ELSE b

Digits == <<"0", "1", "2", "3", "4", "5", "6", "7", "8", "9">>
IsDigit(c) == \E i \in 1..10 : Digits[i] = c
DigitVal(c) == (CHOOSE i \in 1..10 : Digits[i] = c) - 1

RECURSIVE NatToStr(_)
NatToStr(n) == IF n < 10 THEN <<Digits[n + 1]>>
               ELSE NatToStr(n \div 10) \o <<Digits[(n % 10) + 1]>>

\* ToString, as a template literal `${v}` applies it
ToStr(v) ==
  CASE v.t = "undefined" -> <<"u", "n", "d", "e", "f", "i", "n", "e", "d">>
    [] v.t = "NaN" -> <<"N", "a", "N">>
    [] v.t = "number" -> IF v.n < 0 THEN <<"-">> \o NatToStr(0 - v.n)
                         ELSE NatToStr(v.n)
    [] OTHER -> v.s

\* the longest prefix of s made of digits, as a number (0 for none)
RECURSIVE DigitPrefixLen(_)
DigitPrefixLen(s) == IF s = <<>> \/ ~IsDigit(Head(s)) THEN 0
                     ELSE 1 + DigitPrefixLen(Tail(s))
RECURSIVE DigitsToNat(_, _)
DigitsToNat(s, k) == IF k = 0 THEN 0
                     ELSE 10 * DigitsToNat(s, k - 1) + DigitVal(s[k])

RECURSIVE SkipSpaces(_)
SkipSpaces(s) == IF s # <<>> /\ Head(s) = " " THEN SkipSpaces(Tail(s)) ELSE s

\* parseInt(s) / parseFloat(s) on a string of this model's alphabet (no
\* fraction or exponent occurs): leading blanks, an optional sign, then the
\* longest run of digits; NaN when there is no digit.
ParseNumber(str) ==
  LET s == SkipSpaces(str)
      neg == s # <<>> /\ Head(s) = "-"
      body == IF s # <<>> /\ Head(s) \in {"-", "+"} THEN Tail(s) ELSE s
      k == DigitPrefixLen(body)
  IN IF k = 0 THEN JsNaN
     ELSE JsNum(IF neg THEN 0 - DigitsToNat(body, k) ELSE DigitsToNat(body, k))

\* parseInt(v): the argument is converted to a string first
ParseInt(v) == ParseNumber(ToStr(v))
\* parseFloat(v)
ParseFloat(v) == ParseNumber(ToStr(v))

\* s.split(' ')
RECURSIVE Split(_)
Split(s) ==
  IF \A i \in 1..Len(s) : s[i] # " " THEN <<s>>
  ELSE LET p == CHOOSE i \in 1..Len(s) :
                  s[i] = " " /\ \A j \in 1..(i - 1) : s[j] # " "
       IN <<SubSeq(s, 1, p - 1)>> \o Split(SubSeq(s, p + 1, Len(s)))

\* parts.join(' ')
RECURSIVE Join(_)
Join(parts) ==
  IF parts = <<>> THEN <<>>
  ELSE IF Len(parts) = 1 THEN parts[1]
  ELSE parts[1] \o <<" ">> \o Join(Tail(parts))

\* parts.slice(2)
Slice2(parts) == IF Len(parts) <= 2 THEN <<>> ELSE SubSeq(parts, 3, Len(parts))

\* s.startsWith(p)
StartsWith(s, p) == Len(s) >= Len(p) /\ SubSeq(s, 1, Len(p)) = p

\* s.trim()
RECURSIVE TrimRight(_)
TrimRight(s) == IF s # <<>> /\ s[Len(s)] = " "
                THEN TrimRight(SubSeq(s, 1, Len(s) - 1)) ELSE s
Trim(s) == TrimRight(SkipSpaces(s))

\* ------------------------------------------------------------------------
\* String literals of the program
\* ------------------------------------------------------------------------
CMD_START == <<"/", "s", "t", "a", "r", "t">>
CMD_YTD == <<"/", "y", "t", "d">>
CMD_RECENT == <<"/", "r", "e", "c", "e", "n", "t">>
EDIT_PREFIX == <<"/", "e", "d", "i", "t", " ">>
NOTE_PREFIX == <<"/", "n", "o", "t", "e", " ">>
SLASH == <<"/">>
CONTRACT_LABOR == <<"C", "o", "n", "t", "r", "a", "c", "t", " ", "L", "a", "b", "o", "r">>
NOTE_SEPARATOR == <<" ", "|", " ">>
CAPTION_SEPARATOR == <<" ", "-", " ">>
WEBDAV_URL == <<"h", "t", "t", "p", "s", ":", "/", "/", "w", "e", "b", "d", "a", "v", ".", "i", "c", "e", "d", "r", "i", "v", "e", ".", "i", "o">>
SAVED_LOCALLY == <<"R", "e", "c", "e", "i", "p", "t", " ", "s", "a", "v", "e", "d", " ", "l", "o", "c", "a", "l", "l", "y", ":", " ">>
\* sheet titles
SHEET1 == "Sheet1"
MASTER_SHEET == "Master Sheet"
FAMILY_LLC_SHEET == "Family LLC"
\* error texts returned in {success: false, error}
ERR_SHEET_NOT_FOUND == "Sheet not found"
ERR_ENTRY_NOT_FOUND == "Entry #<n> not found. Use /recent to see available entries."
ERR_APPEND_SHEET_NOT_FOUND == "Sheet \"<sheetName>\" not found"
\* error.message of an exception thrown by the spreadsheet client
ERR_STORE == "error.message"

\* ------------------------------------------------------------------------
\* Values the environment supplies (request texts, LLM answers, OCR text)
\* ------------------------------------------------------------------------
BUSINESS_MEALS == <<"B", "u", "s", "i", "n", "e", "s", "s", " ", "M", "e", "a", "l", "s">>
FAMILY_LLC == <<"f", "a", "m", "i", "l", "y", "_", "l", "l", "c">>
SCORP == <<"s", "c", "o", "r", "p">>
BUSINESS == <<"b", "u", "s", "i", "n", "e", "s", "s">>
T_edit == <<"/", "e", "d", "i", "t">>
T_note == <<"/", "n", "o", "t", "e">>
T_foo == <<"/", "f", "o", "o">>
T_lunch == <<"l", "u", "n", "c", "h", " ", "8", "5">>
Sp == <<" ">>

\* '/edit <n> <text>' and '/note <n> <text>' with every shape of index
EditTexts ==
  { T_edit \o Sp \o n \o Sp \o <<"a">> :
      n \in {<<"1">>, <<"3">>, <<"0">>, <<"-", "1">>, <<"x">>, <<"1", "x">>} }
  \cup { T_edit, T_edit \o Sp, T_edit \o Sp \o <<"1">>, T_edit \o Sp \o <<"1">> \o Sp,
         T_edit \o Sp \o <<"1">> \o Sp \o <<"a">> \o Sp \o <<"b">> }
NoteTexts ==
  { T_note \o Sp \o <<"2">> \o Sp \o v : v \in {<<"x">>, <<"y">>} }
  \cup { T_note \o Sp \o n \o Sp \o <<"x">> : n \in {<<"1">>, <<"3">>} }
  \cup { T_note, T_note \o Sp \o <<"0">> \o Sp \o <<"x">>, T_note \o Sp \o <<"1">> }
Texts == {CMD_START, CMD_YTD, CMD_RECENT, T_foo, T_lunch} \cup EditTexts \cup NoteTexts

\* chat ids; AUTHORIZED_CHAT_IDS is the configured allow-list
AUTHORIZED_CHAT_IDS == {"100"}
ChatIds == {"100", "999"}

\* message.text: absent, a string, or a non-string JSON value
TextValues == {JsUndefined, JsNum(5)} \cup { JsStr(t) : t \in Texts }
\* message.caption
CaptionValues == {JsUndefined, JsStr(<<"c">>), JsStr(<<" ">>)}
\* message.photo: absent, [], or a non-empty list of sizes
PhotoValues == {"absent", "empty", "nonempty"}

Req(method, bodyKind, hasMessage, hasChat, chatId, text, photo, caption) ==
  [method |-> method, bodyKind |-> bodyKind, hasMessage |-> hasMessage,
   hasChat |-> hasChat, chatId |-> chatId, text |-> text, photo |-> photo,
   caption |-> caption]

NoReq == Req("", "", FALSE, FALSE, "", JsUndefined, "absent", JsUndefined)

\* bodyKind: "malformed" is not JSON, "null" is the JSON value null,
\* "object" is a JSON object
Requests ==
  { Req(m, "object", FALSE, FALSE, "", JsUndefined, "absent", JsUndefined) :
      m \in {"OPTIONS", "GET", "PUT", "DELETE"} }
  \cup { Req("POST", k, FALSE, FALSE, "", JsUndefined, "absent", JsUndefined) :
      k \in {"malformed", "null", "object"} }
  \cup { Req("POST", "object", TRUE, TRUE, c, JsUndefined, "absent", JsUndefined) :
      c \in ChatIds }
  \cup { Req("POST", "object", TRUE, FALSE, "", JsStr(T_lunch), "absent", JsUndefined) }
  \cup { Req("POST", "object", TRUE, TRUE, "100", t, "absent", JsUndefined) :
      t \in TextValues }
  \cup { Req("POST", "object", TRUE, TRUE, "100", t, "empty", JsUndefined) :
      t \in {JsUndefined, JsStr(T_lunch), JsStr(T_foo)} }
  \cup { Req("POST", "object", TRUE, TRUE, "100", t, "nonempty", JsUndefined) :
      t \in {JsStr(T_foo), JsStr(CMD_START)} }
  \cup { Req("POST", "object", TRUE, TRUE, "100", JsUndefined, "nonempty", c) :
      c \in CaptionValues }
  \cup { Req("POST", "object", TRUE, TRUE, "999", t, "absent", JsUndefined) :
      t \in {JsStr(T_lunch), JsStr(CMD_START)} }
  \cup { Req("POST", "object", TRUE, TRUE, "999", JsUndefined, "nonempty", JsUndefined) }

\* ------------------------------------------------------------------------
\* Expense records: what JSON.parse of the LLM answer yields
\* ------------------------------------------------------------------------
Fields(amount, vendor, category, businessType, entityType, pct, taxNotes, suggestedDescription, workDescription, receiptUrl) ==
  [amount |-> amount, vendor |-> vendor, category |-> category,
   businessType |-> businessType, entityType |-> entityType,
   deductibilityPercentage |-> pct, taxNotes |-> taxNotes,
   suggestedDescription |-> suggestedDescription,
   workDescription |-> workDescription, receiptUrl |-> receiptUrl]

NoFields == Fields(JsUndefined, JsUndefined, JsUndefined, JsUndefined,
                   JsUndefined, JsUndefined, JsUndefined, JsUndefined,
                   JsUndefined, JsUndefined)

\* kind: "null" (null and the other falsy values) or "object"
JsonNull == [kind |-> "null", f |-> NoFields]
JsonObject(f) == [kind |-> "object", f |-> f]

LaborRecord ==
  JsonObject(Fields(JsNum(200), JsStr(<<"S">>), JsStr(CONTRACT_LABOR), JsStr(BUSINESS),
                    JsStr(FAMILY_LLC), JsNum(100), JsStr(<<"n">>), JsStr(<<"d">>),
                    JsStr(<<"w">>), JsUndefined))
\* an answer that is valid JSON but not the requested schema: no
\* entityType, a negative amount, a percentage above 100
InvalidRecord ==
  JsonObject([NoFields EXCEPT !.amount = JsNum(0 - 5),
                              !.category = JsStr(BUSINESS_MEALS),
                              !.deductibilityPercentage = JsNum(150)])

\* the values JSON.parse(responseText) can yield
LlmValues == {JsonNull, LaborRecord, InvalidRecord}
\* the outcomes of the LLM call
LlmOutcomes == {"not_ok", "throws", "no_content", "bad_json", "json"}

\* expenseData.<name> = v
SetField(ed, name, v) == [ed EXCEPT !.f[name] = v]

\* ------------------------------------------------------------------------
\* The spreadsheet document
\* ------------------------------------------------------------------------
Row(date, vendor, category, amount, businessType, entity, pct, taxNotes, description, workDescription, receiptUrl) ==
  [Date |-> date, Vendor |-> vendor, Category |-> category, Amount |-> amount,
   BusinessType |-> businessType, Entity |-> entity, DeductiblePct |-> pct,
   TaxNotes |-> taxNotes, Description |-> description,
   WorkDescription |-> workDescription, ReceiptURL |-> receiptUrl]

\* new Date().toISOString().split('T')[0]; the model fixes the day of the
\* year, only the year moves
IsoDate(y) == NatToStr(y) \o <<"-", "0", "6", "-", "1", "5">>

\* new Date(v).getFullYear(): the year of a 'YYYY-MM-DD' string, NaN for
\* anything that is not a date
GetFullYear(v) ==
  IF v.t = "string" /\ Len(v.s) = 10 /\ DigitPrefixLen(v.s) = 4 /\ v.s[5] = "-"
  THEN JsNum(DigitsToNat(v.s, 4)) ELSE JsNaN

\* the sheet getRecentEntries and editEntry work on:
\* doc.sheetsByTitle['Sheet1'] || doc.sheetsByTitle['Master Sheet']
PrimarySheet(doc) ==
  IF SHEET1 \in DOMAIN doc THEN SHEET1
  ELSE IF MASTER_SHEET \in DOMAIN doc THEN MASTER_SHEET
  ELSE ""

\* ------------------------------------------------------------------------
\* calculateYTDPayments: storeOk is whether initGoogleSheet and getRows
\* return (TRUE) or throw (FALSE)
\* ------------------------------------------------------------------------
RECURSIVE SumContractLabor(_, _)
SumContractLabor(rows, currentYear) ==
  IF rows = <<>> THEN 0
  ELSE LET row == rows[Len(rows)]
           rest == SumContractLabor(SubSeq(rows, 1, Len(rows) - 1), currentYear)
           amount == JsOr(ParseFloat(row.Amount), JsNum(0))
       IN IF GetFullYear(row.Date) = JsNum(currentYear)
             /\ row.Category = JsStr(CONTRACT_LABOR)
          THEN rest + amount.n ELSE rest

CalculateYTDPayments(doc, currentYear, storeOk) ==
  IF ~storeOk THEN 0
  ELSE IF FAMILY_LLC_SHEET \notin DOMAIN doc THEN 0
  ELSE SumContractLabor(doc[FAMILY_LLC_SHEET], currentYear)

\* ------------------------------------------------------------------------
\* getRecentEntries(limit)
\* ------------------------------------------------------------------------
\* the rows left in insertion order
Reverse_Identity(seq) == seq

\* rows.reverse()
Reverse(seq) == [i \in 1..Len(seq) |-> seq[Len(seq) + 1 - i]]
\* rows.slice(-limit): a negative start counts from the end (not before
\* the first row), a start of 0 or more counts from the front
SliceLast(rows, limit) ==
  LET start == 0 - limit
      from == IF start < 0
              THEN (IF Len(rows) + start < 0 THEN 0 ELSE Len(rows) + start)
              ELSE (IF start > Len(rows) THEN Len(rows) ELSE start)
  IN SubSeq(rows, from + 1, Len(rows))
EntrySummary(row) ==
  [date |-> row.Date, vendor |-> row.Vendor, category |-> row.Category,
   amount |-> row.Amount, deductibilityPercentage |-> row.DeductiblePct,
   description |-> row.Description]

GetRecentEntries(doc, limit, storeOk) ==
  IF ~storeOk THEN <<>>
  ELSE IF PrimarySheet(doc) = "" THEN <<>>
  ELSE LET recentRows == Reverse(SliceLast(doc[PrimarySheet(doc)], limit))
       IN [i \in 1..Len(recentRows) |-> EntrySummary(recentRows[i])]

\* default of the limit parameter
RECENT_LIMIT == 10

\* ------------------------------------------------------------------------
\* addExpenseToSheet(expenseData, sheetName): the document after the call
\* and the result returned; storeOk is whether initGoogleSheet and addRow
\* return or throw
\* ------------------------------------------------------------------------
Result(success, error) == [success |-> success, error |-> error]
NoResult == Result(FALSE, "")

\* 'Deductible %' taken from the wrong field
RowData_WrongPercent(expenseData, today) ==
  Row(JsStr(today), expenseData.f.vendor, expenseData.f.category,
      expenseData.f.amount, expenseData.f.businessType, expenseData.f.entityType,
      expenseData.f.amount, expenseData.f.taxNotes,
      expenseData.f.suggestedDescription,
      JsOr(expenseData.f.workDescription, JsStr(<<>>)),
      JsOr(expenseData.f.receiptUrl, JsStr(<<>>)))

RowData(expenseData, today) ==
  Row(JsStr(today), expenseData.f.vendor, expenseData.f.category,
      expenseData.f.amount, expenseData.f.businessType, expenseData.f.entityType,
      expenseData.f.deductibilityPercentage, expenseData.f.taxNotes,
      expenseData.f.suggestedDescription,
      JsOr(expenseData.f.workDescription, JsStr(<<>>)),
      JsOr(expenseData.f.receiptUrl, JsStr(<<>>)))

\* the fallback to 'Master Sheet' dropped
AppendTarget_NoFallback(doc, sheetName) ==
  IF sheetName \in DOMAIN doc THEN sheetName ELSE ""

\* the sheet the row goes to, "" when neither sheet exists
AppendTarget(doc, sheetName) ==
  IF sheetName \in DOMAIN doc THEN sheetName
  ELSE IF MASTER_SHEET \in DOMAIN doc THEN MASTER_SHEET
  ELSE ""

\* the row written twice
AddExpenseToSheet_AppendsTwice(doc, expenseData, sheetName, today, storeOk) ==
  IF ~storeOk THEN [doc |-> doc, result |-> Result(FALSE, ERR_STORE)]
  ELSE IF AppendTarget(doc, sheetName) = ""
  THEN [doc |-> doc, result |-> Result(FALSE, ERR_APPEND_SHEET_NOT_FOUND)]
  ELSE LET title == AppendTarget(doc, sheetName)
       IN [doc |-> [doc EXCEPT ![title] = Append(Append(@, RowData(expenseData, today)),
                                                 RowData(expenseData, today))],
           result |-> Result(TRUE, "")]

AddExpenseToSheet(doc, expenseData, sheetName, today, storeOk) ==
  IF ~storeOk THEN [doc |-> doc, result |-> Result(FALSE, ERR_STORE)]
  ELSE IF AppendTarget(doc, sheetName) = ""
  THEN [doc |-> doc, result |-> Result(FALSE, ERR_APPEND_SHEET_NOT_FOUND)]
  ELSE LET title == AppendTarget(doc, sheetName)
       IN [doc |-> [doc EXCEPT ![title] = Append(@, RowData(expenseData, today))],
           result |-> Result(TRUE, "")]

\* ------------------------------------------------------------------------
\* editEntry(entryNumber, field, newValue), in its two halves: the read
\* (initGoogleSheet, getRows, the range check and row.set) and row.save()
\* ------------------------------------------------------------------------
\* the notes edit overwriting the cell, as the description edit does
EditedRow_NotesOverwrite(row, field, newValue) ==
  IF field = "description" THEN [row EXCEPT !.Description = JsStr(newValue)]
  ELSE IF field = "notes" THEN [row EXCEPT !.WorkDescription = JsStr(newValue)]
  ELSE row

\* row.set(...) of lines 273-279 on the row read
EditedRow(row, field, newValue) ==
  IF field = "description" THEN [row EXCEPT !.Description = JsStr(newValue)]
  ELSE IF field = "notes"
  THEN LET existingNotes == JsOr(row.WorkDescription, JsStr(<<>>))
           updatedNotes == IF Truthy(existingNotes)
                           THEN ToStr(existingNotes) \o NOTE_SEPARATOR \o newValue
                           ELSE newValue
       IN [row EXCEPT !.WorkDescription = JsStr(updatedNotes)]
  ELSE row

\* the range check without its upper bound
EditEntryEarlyResult_NoUpperBound(doc, entryNumber, storeOk) ==
  IF ~storeOk THEN Result(FALSE, ERR_STORE)
  ELSE IF PrimarySheet(doc) = "" THEN Result(FALSE, ERR_SHEET_NOT_FOUND)
  ELSE IF entryNumber < 1 THEN Result(FALSE, ERR_ENTRY_NOT_FOUND)
  ELSE NoResult

\* what editEntry returns before it reaches row.save(), NoResult when it
\* reaches it
EditEntryEarlyResult(doc, entryNumber, storeOk) ==
  IF ~storeOk THEN Result(FALSE, ERR_STORE)
  ELSE IF PrimarySheet(doc) = "" THEN Result(FALSE, ERR_SHEET_NOT_FOUND)
  ELSE IF entryNumber < 1 \/ entryNumber > Len(doc[PrimarySheet(doc)])
  THEN Result(FALSE, ERR_ENTRY_NOT_FOUND)
  ELSE NoResult

\* the row written back over the first row of the sheet
SaveRow_FirstRow(doc, title, index, row) ==
  IF title \in DOMAIN doc /\ index \in 1..Len(doc[title])
  THEN [doc EXCEPT ![title][1] = row] ELSE doc

\* row.save(): writes the row object back at its position
SaveRow(doc, title, index, row) ==
  IF title \in DOMAIN doc /\ index \in 1..Len(doc[title])
  THEN [doc EXCEPT ![title][index] = row] ELSE doc

\* ------------------------------------------------------------------------
\* State
\* ------------------------------------------------------------------------
VARIABLES
  sheetsByTitle,  \* the spreadsheet document: sheet title -> rows, in order
  year,           \* the calendar year of the wall clock
  ticks,          \* new-year rollovers so far
  nreq,           \* invocations so far
  npipe,          \* invocations that entered the photo or text pipeline
  pc,             \* position of the running invocation, "idle" between two
  req,            \* event.httpMethod and event.body of the invocation
  out,            \* the message being sent and where the handler goes next
  sent,           \* sendTelegramMessage calls of this invocation, in order
  sendFailed,     \* the step just taken was a sendTelegramMessage that failed
  calls,          \* external calls of this invocation, in order
  resp,           \* the HTTP response returned
  expenseData,    \* local of the photo and text pipelines
  categorized,    \* what processExpenseWithAI returned in this invocation
  ocrResult,      \* local of the photo pipeline
  result,         \* result of addExpenseToSheet / editEntry
  edit,           \* locals of editEntry
  ytdTotal,       \* local of the /ytd branch
  recentEntries,  \* local of the /recent branch
  doc0,           \* the document when the invocation started
  lastYtd,        \* the last calculateYTDPayments with no write since
  lastNote,       \* the last notes edit with no write since
  procs           \* invocations of the '/note' branch that run at the same time

vars == <<sheetsByTitle, year, ticks, nreq, npipe, pc, req, out, sent, sendFailed, calls,
          resp, expenseData, categorized, ocrResult, result, edit, ytdTotal,
          recentEntries, doc0, lastYtd, lastNote, procs>>

\* locals of one invocation
locals == <<expenseData, categorized, ocrResult, result, edit, ytdTotal, recentEntries>>
\* history of earlier invocations
hist == <<lastYtd, lastNote>>
\* the clock and the invocation counter
env == <<year, ticks, nreq, npipe, req, doc0>>

Msg(kind, detail, n) == [kind |-> kind, detail |-> detail, n |-> n]
Resp(statusCode, key, value) == [statusCode |-> statusCode, key |-> key, value |-> value]
NoResp == Resp(0, "", "")
\* {statusCode: 200, headers, body: JSON.stringify({status: value})}
Ok200(value) == Resp(200, "status", value)
Out(msg, next, response) == [msg |-> msg, next |-> next, resp |-> response]
NoOut == Out(Msg("", "", 0), "", NoResp)

NoRow == Row(JsUndefined, JsUndefined, JsUndefined, JsUndefined, JsUndefined,
             JsUndefined, JsUndefined, JsUndefined, JsUndefined, JsUndefined,
             JsUndefined)
\* rows is rows.length, -1 while the rows are not read
NoEdit == [n |-> 0, field |-> "", value |-> <<>>, title |-> "", rows |-> 0 - 1,
           row |-> NoRow]
NoOcr == [text |-> JsUndefined, imageUrl |-> JsUndefined]
NoYtd == [valid |-> FALSE, value |-> 0, ok |-> FALSE]
NoNote == [valid |-> FALSE, n |-> 0, prev |-> JsUndefined, x |-> <<>>]
\* one invocation of the '/note' branch among several that run at the same
\* time: its position, message.text, the locals of editEntry, the result,
\* the reply to send, the messages sent and the response
Invocations == 1..MaxConcurrent
NoProc == [pc |-> "idle", text |-> <<>>, edit |-> NoEdit, result |-> NoResult,
           out |-> Msg("", "", 0), sent |-> <<>>, resp |-> NoResp]

\* ------------------------------------------------------------------------
\* Documents the deployment can start from
\* ------------------------------------------------------------------------
SeedRow(y, category, amount, workDescription) ==
  Row(JsStr(IsoDate(y)), JsStr(<<"S">>), JsStr(category), amount, JsStr(BUSINESS),
      JsStr(FAMILY_LLC), JsStr(<<"1", "0", "0">>), JsStr(<<"n">>), JsStr(<<"d">>),
      workDescription, JsStr(<<>>))

\* the spreadsheet returns cell values as strings
FamilyRows ==
  << SeedRow(StartYear, CONTRACT_LABOR, JsStr(<<"5", "0", "0">>), JsStr(<<"w">>)),
     SeedRow(StartYear - 1, CONTRACT_LABOR, JsStr(<<"3", "0", "0">>), JsStr(<<"w">>)),
     SeedRow(StartYear, CONTRACT_LABOR, JsStr(<<"n", "/", "a">>), JsStr(<<"w">>)),
     SeedRow(StartYear, BUSINESS_MEALS, JsStr(<<"4", "0">>), JsStr(<<>>)),
     [SeedRow(StartYear, CONTRACT_LABOR, JsStr(<<"7">>), JsStr(<<>>))
        EXCEPT !.Date = JsStr(<<"?">>)] >>
LedgerRows ==
  << SeedRow(StartYear, BUSINESS_MEALS, JsStr(<<"4", "0">>), JsStr(<<>>)),
     SeedRow(StartYear, CONTRACT_LABOR, JsStr(<<"5", "0", "0">>), JsStr(<<"w">>)) >>

InitialDocs ==
  { (SHEET1 :> LedgerRows) @@ (FAMILY_LLC_SHEET :> FamilyRows),
    (MASTER_SHEET :> <<>>),
    (FAMILY_LLC_SHEET :> FamilyRows) }

Init ==
  /\ sheetsByTitle \in InitialDocs
  /\ year = StartYear
  /\ ticks = 0
  /\ nreq = 0
  /\ npipe = 0
  /\ pc = "idle"
  /\ req = NoReq
  /\ out = NoOut
  /\ sent = <<>>
  /\ sendFailed = FALSE
  /\ calls = <<>>
  /\ resp = NoResp
  /\ expenseData = JsonNull
  /\ categorized = JsonNull
  /\ ocrResult = NoOcr
  /\ result = NoResult
  /\ edit = NoEdit
  /\ ytdTotal = 0
  /\ recentEntries = <<>>
  /\ doc0 = sheetsByTitle
  /\ lastYtd = NoYtd
  /\ lastNote = NoNote
  /\ procs = [p \in Invocations |-> NoProc]

\* ------------------------------------------------------------------------
\* exports.handler: the branch taken, first match wins (lines 382-724)
\* ------------------------------------------------------------------------
\* const text = message.text || ''
TextOf(r) == JsOr(r.text, JsStr(<<>>))

\* the OPTIONS short-circuit dropped
MethodRoute_NoPreflight(method) ==
  IF method = "GET" THEN "get"
  ELSE IF method # "POST" THEN "not_allowed"
  ELSE "post"

\* lines 382-411: the method decides first
MethodRoute(method) ==
  IF method = "OPTIONS" THEN "options"
  ELSE IF method = "GET" THEN "get"
  ELSE IF method # "POST" THEN "not_allowed"
  ELSE "post"

\* the allow-list check dropped
IsAuthorized_Everyone(chatId) == TRUE

\* line 437: AUTHORIZED_CHAT_IDS.includes(chatId)
IsAuthorized(chatId) == chatId \in AUTHORIZED_CHAT_IDS

Route(r) ==
  IF MethodRoute(r.method) # "post" THEN MethodRoute(r.method)
  \* JSON.parse(event.body) throws; destructuring null throws
  ELSE IF r.bodyKind # "object" THEN "throw"
  ELSE IF ~r.hasMessage \/ (~Truthy(r.text) /\ r.photo = "absent") THEN "no_message"
  \* message.chat.id of a message without chat throws
  ELSE IF ~r.hasChat THEN "throw"
  ELSE IF ~IsAuthorized(r.chatId) THEN "unauthorized"
  ELSE IF TextOf(r) = JsStr(CMD_START) THEN "start"
  ELSE IF TextOf(r) = JsStr(CMD_YTD) THEN "ytd"
  ELSE IF TextOf(r) = JsStr(CMD_RECENT) THEN "recent"
  \* text.startsWith of a text that is no string throws
  ELSE IF TextOf(r).t # "string" THEN "throw"
  ELSE IF StartsWith(TextOf(r).s, EDIT_PREFIX) THEN "edit"
  ELSE IF StartsWith(TextOf(r).s, NOTE_PREFIX) THEN "note"
  ELSE IF r.photo = "nonempty" THEN "photo"
  ELSE IF Truthy(TextOf(r)) /\ r.photo = "absent" /\ ~StartsWith(TextOf(r).s, SLASH)
  THEN "text"
  ELSE "none"

\* ------------------------------------------------------------------------
\* The environment: a new year, a new invocation
\* ------------------------------------------------------------------------
\* new Date() moves into the next year between two invocations; the runs
\* explored have the year turn before the first expense is recorded
NewYear ==
  /\ pc = "idle"
  /\ npipe = 0
  /\ ticks < MaxYearTicks
  /\ year' = year + 1
  /\ ticks' = ticks + 1
  /\ lastYtd' = NoYtd
  /\ sendFailed' = FALSE
  /\ UNCHANGED procs
  /\ UNCHANGED <<sheetsByTitle, nreq, npipe, pc, req, out, sent, calls, resp, locals,
                 doc0, lastNote>>

Invoke(r) ==
  /\ pc = "idle"
  /\ nreq < MaxRequests
  /\ nreq' = nreq + 1
  /\ Route(r) \in {"photo", "text"} => npipe < MaxPipelines
  /\ npipe' = IF Route(r) \in {"photo", "text"} THEN npipe + 1 ELSE npipe
  /\ req' = r
  /\ pc' = "entry"
  /\ out' = NoOut
  /\ sent' = <<>>
  /\ sendFailed' = FALSE
  /\ UNCHANGED procs
  /\ calls' = <<>>
  /\ resp' = NoResp
  /\ expenseData' = JsonNull
  /\ categorized' = JsonNull
  /\ ocrResult' = NoOcr
  /\ result' = NoResult
  /\ edit' = NoEdit
  /\ ytdTotal' = 0
  /\ recentEntries' = <<>>
  /\ doc0' = sheetsByTitle
  /\ UNCHANGED <<sheetsByTitle, year, ticks, hist>>

\* the handler never settles its promise: no response is returned
Finish_Hangs(r) == pc' = "pending" /\ resp' = resp /\ out' = NoOut

\* the handler returns response r without sending anything
Finish(r) == pc' = "done" /\ resp' = r /\ out' = NoOut
\* the reply dropped: return r at once
Reply_NoSend(msg, r) == pc' = "done" /\ resp' = r /\ out' = NoOut

\* await sendTelegramMessage(msg); return r
Reply(msg, r) == pc' = "send" /\ out' = Out(msg, "return", r) /\ resp' = resp
\* await sendTelegramMessage(msg); then go on at next
Ack(msg, next) == pc' = "send" /\ out' = Out(msg, next, NoResp) /\ resp' = resp
\* go on at the next await
Goto(next) == pc' = next /\ out' = NoOut /\ resp' = resp

\* lines 382-411
MethodShortCircuit ==
  /\ pc = "entry"
  /\ Route(req) \in {"options", "get", "not_allowed"}
  /\ Finish(CASE Route(req) = "options" -> Resp(200, "none", "")
              [] Route(req) = "get" -> Resp(200, "health", "S-Corp Expense Tracker is running on Netlify!")
              [] OTHER -> Resp(405, "error", "Method not allowed"))
  /\ sendFailed' = FALSE
  /\ UNCHANGED procs
  /\ UNCHANGED <<sheetsByTitle, env, sent, calls, locals, hist>>

\* lines 726-733: an exception thrown before the first await
EntryThrows ==
  /\ pc = "entry"
  /\ Route(req) = "throw"
  /\ Finish(Resp(500, "error", "error.message"))
  /\ sendFailed' = FALSE
  /\ UNCHANGED procs
  /\ UNCHANGED <<sheetsByTitle, env, sent, calls, locals, hist>>

\* the unauthorized sender told so over Telegram
SilentReturn_TellsSender ==
  /\ pc = "entry"
  /\ Route(req) \in {"no_message", "unauthorized", "none"}
  /\ IF Route(req) = "unauthorized"
     THEN Reply(Msg("unauthorized", "", 0), Ok200("Unauthorized"))
     ELSE Finish(IF Route(req) = "no_message" THEN Ok200("No message text or photo")
                 ELSE Ok200("No processable content"))
  /\ sendFailed' = FALSE
  /\ UNCHANGED procs
  /\ UNCHANGED <<sheetsByTitle, env, sent, calls, locals, hist>>

\* lines 417-423, 437-443 and 720-724: the three silent branches
SilentReturn ==
  /\ pc = "entry"
  /\ Route(req) \in {"no_message", "unauthorized", "none"}
  /\ Finish(CASE Route(req) = "no_message" -> Ok200("No message text or photo")
              [] Route(req) = "unauthorized" -> Ok200("Unauthorized")
              [] OTHER -> Ok200("No processable content"))
  /\ sendFailed' = FALSE
  /\ UNCHANGED procs
  /\ UNCHANGED <<sheetsByTitle, env, sent, calls, locals, hist>>

\* lines 446-464
CmdStart ==
  /\ pc = "entry"
  /\ Route(req) = "start"
  /\ Reply(Msg("start", "", 0), Ok200("Start message sent"))
  /\ sendFailed' = FALSE
  /\ UNCHANGED procs
  /\ UNCHANGED <<sheetsByTitle, env, sent, calls, locals, hist>>

\* lines 466-467: await calculateYTDPayments()
CmdYtd ==
  /\ pc = "entry"
  /\ Route(req) = "ytd"
  /\ Goto("ytd_calc")
  /\ sendFailed' = FALSE
  /\ UNCHANGED procs
  /\ UNCHANGED <<sheetsByTitle, env, sent, calls, locals, hist>>

YtdCalc ==
  /\ pc = "ytd_calc"
  /\ \E storeOk \in BOOLEAN :
       /\ ytdTotal' = CalculateYTDPayments(sheetsByTitle, year, storeOk)
       /\ lastYtd' = [valid |-> TRUE, value |-> ytdTotal', ok |-> storeOk]
  /\ calls' = Append(calls, "sheets_read")
  /\ Reply(Msg("ytd", "", ytdTotal'), Ok200("YTD message sent"))
  /\ sendFailed' = FALSE
  /\ UNCHANGED procs
  /\ UNCHANGED <<sheetsByTitle, env, sent, expenseData, categorized, ocrResult,
                 result, edit, recentEntries, lastNote>>

\* lines 482-483: await getRecentEntries()
CmdRecent ==
  /\ pc = "entry"
  /\ Route(req) = "recent"
  /\ Goto("recent_get")
  /\ sendFailed' = FALSE
  /\ UNCHANGED procs
  /\ UNCHANGED <<sheetsByTitle, env, sent, calls, locals, hist>>

RecentGet ==
  /\ pc = "recent_get"
  /\ \E storeOk \in BOOLEAN :
       recentEntries' = GetRecentEntries(sheetsByTitle, RECENT_LIMIT, storeOk)
  /\ calls' = Append(calls, "sheets_read")
  /\ Reply(IF Len(recentEntries') = 0 THEN Msg("recent_none", "", 0)
           ELSE Msg("recent_list", "", Len(recentEntries')),
           Ok200("Recent entries sent"))
  /\ sendFailed' = FALSE
  /\ UNCHANGED procs
  /\ UNCHANGED <<sheetsByTitle, env, sent, expenseData, categorized, ocrResult,
                 result, edit, ytdTotal, hist>>

\* lines 504-514 and 524-534: parse the command, reply with the usage text
\* or call editEntry; parts is the one array text.split(' ') returned
CommandArgs(text) ==
  CHOOSE args \in { [entryNumber |-> ParseInt(JsStr(parts[2])),
                     newValue |-> Join(Slice2(parts))] : parts \in {Split(text)} } : TRUE

CmdEdit ==
  /\ pc = "entry"
  /\ Route(req) = "edit"
  /\ \E args \in {CommandArgs(TextOf(req).s)} :
        IF ~Truthy(args.entryNumber) \/ args.newValue = <<>>
        THEN /\ Reply(Msg("usage_edit", "", 0), Ok200("Invalid edit command"))
             /\ edit' = edit
        ELSE /\ Goto("edit_read")
             /\ edit' = [NoEdit EXCEPT !.n = args.entryNumber.n,
                                       !.field = "description",
                                       !.value = args.newValue]
  /\ sendFailed' = FALSE
  /\ UNCHANGED procs
  /\ UNCHANGED <<sheetsByTitle, env, sent, calls, expenseData, categorized,
                 ocrResult, result, ytdTotal, recentEntries, hist>>

CmdNote ==
  /\ pc = "entry"
  /\ Route(req) = "note"
  /\ \E args \in {CommandArgs(TextOf(req).s)} :
        IF ~Truthy(args.entryNumber) \/ args.newValue = <<>>
        THEN /\ Reply(Msg("usage_note", "", 0), Ok200("Invalid note command"))
             /\ edit' = edit
        ELSE /\ Goto("edit_read")
             /\ edit' = [NoEdit EXCEPT !.n = args.entryNumber.n,
                                       !.field = "notes",
                                       !.value = args.newValue]
  /\ sendFailed' = FALSE
  /\ UNCHANGED procs
  /\ UNCHANGED <<sheetsByTitle, env, sent, calls, expenseData, categorized,
                 ocrResult, result, ytdTotal, recentEntries, hist>>

\* the reply after editEntry with the error text left out
EditReply_NoDetail(r) ==
  IF edit.field = "description"
  THEN Reply(IF r.success THEN Msg("edit_ok", "", edit.n)
             ELSE Msg("edit_error", "", edit.n), Ok200("Edit processed"))
  ELSE Reply(IF r.success THEN Msg("note_ok", "", edit.n)
             ELSE Msg("note_error", "", edit.n), Ok200("Note processed"))

\* the reply and the response after editEntry returned (lines 515-520, 535-540)
EditReply(r) ==
  IF edit.field = "description"
  THEN Reply(IF r.success THEN Msg("edit_ok", "", edit.n)
             ELSE Msg("edit_error", r.error, edit.n), Ok200("Edit processed"))
  ELSE Reply(IF r.success THEN Msg("note_ok", "", edit.n)
             ELSE Msg("note_error", r.error, edit.n), Ok200("Note processed"))

\* editEntry, lines 257-279: load the document, read the rows, check the
\* range, set the cell on the row object
EditRead ==
  /\ pc = "edit_read"
  /\ calls' = Append(calls, "sheets_read")
  /\ \E storeOk \in BOOLEAN :
       LET early == EditEntryEarlyResult(sheetsByTitle, edit.n, storeOk)
           title == PrimarySheet(sheetsByTitle)
       IN IF early # NoResult
          THEN /\ result' = early
               /\ edit' = IF storeOk /\ title # ""
                          THEN [edit EXCEPT !.title = title,
                                            !.rows = Len(sheetsByTitle[title])]
                          ELSE edit
               /\ EditReply(early)
          ELSE IF edit.n \notin 1..Len(sheetsByTitle[title])
          \* rows[entryNumber - 1] is undefined: row.set throws, line 283
          \* catches it
          THEN /\ result' = Result(FALSE, ERR_STORE)
               /\ edit' = [edit EXCEPT !.title = title,
                                        !.rows = Len(sheetsByTitle[title])]
               /\ EditReply(Result(FALSE, ERR_STORE))
          ELSE /\ result' = result
               /\ edit' = [edit EXCEPT !.title = title,
                             !.rows = Len(sheetsByTitle[title]),
                             !.row = EditedRow(sheetsByTitle[title][edit.n],
                                               edit.field, edit.value)]
               /\ Goto("edit_save")
  /\ sendFailed' = FALSE
  /\ UNCHANGED procs
  /\ UNCHANGED <<sheetsByTitle, env, sent, expenseData, categorized, ocrResult,
                 ytdTotal, recentEntries, hist>>

\* editEntry, lines 281-286: await row.save()
EditSave ==
  /\ pc = "edit_save"
  /\ calls' = Append(calls, "sheets_save")
  /\ \E saveOk \in BOOLEAN :
       IF saveOk
       THEN /\ sheetsByTitle' = SaveRow(sheetsByTitle, edit.title, edit.n, edit.row)
            /\ result' = Result(TRUE, "")
            /\ lastYtd' = NoYtd
            /\ lastNote' = IF edit.field = "notes"
                           THEN [valid |-> TRUE, n |-> edit.n,
                                 prev |-> sheetsByTitle[edit.title][edit.n].WorkDescription,
                                 x |-> edit.value]
                           ELSE NoNote
            /\ EditReply(Result(TRUE, ""))
       ELSE /\ sheetsByTitle' = sheetsByTitle
            /\ result' = Result(FALSE, ERR_STORE)
            /\ UNCHANGED hist
            /\ EditReply(Result(FALSE, ERR_STORE))
  /\ sendFailed' = FALSE
  /\ UNCHANGED procs
  /\ UNCHANGED <<env, sent, expenseData, categorized, ocrResult, edit, ytdTotal,
                 recentEntries>>

\* a failed send re-raised to the handler's outer catch
AfterSend_Rethrow(o, r, delivered) ==
  IF ~delivered THEN [pc |-> "done", resp |-> Resp(500, "error", "error.message")]
  ELSE IF o.next = "return" THEN [pc |-> "done", resp |-> o.resp]
  ELSE [pc |-> o.next, resp |-> r]

\* where the handler stands after `await sendTelegramMessage(...)`: the
\* function catches the fetch error and logs a non-ok answer (lines 358-372),
\* it returns nothing, so the caller goes on the same way
AfterSend(o, r, delivered) ==
  IF o.next = "return" THEN [pc |-> "done", resp |-> o.resp]
  ELSE [pc |-> o.next, resp |-> r]

\* sendTelegramMessage, lines 358-372: the fetch succeeds or fails
SendTelegramMessage ==
  /\ pc = "send"
  /\ sent' = Append(sent, out.msg)
  /\ calls' = Append(calls, "telegram")
  /\ \E delivered \in BOOLEAN :
       /\ sendFailed' = ~delivered
       /\ pc' = AfterSend(out, resp, delivered).pc
       /\ resp' = AfterSend(out, resp, delivered).resp
  /\ out' = NoOut
  /\ UNCHANGED <<sheetsByTitle, env, locals, hist, procs>>

\* the response is handed to the platform and the invocation's locals are
\* gone; the next invocation may start
Return ==
  /\ pc = "done"
  /\ pc' = "idle"
  /\ req' = NoReq
  /\ out' = NoOut
  /\ sent' = <<>>
  /\ sendFailed' = FALSE
  /\ UNCHANGED procs
  /\ calls' = <<>>
  /\ resp' = NoResp
  /\ expenseData' = JsonNull
  /\ categorized' = JsonNull
  /\ ocrResult' = NoOcr
  /\ result' = NoResult
  /\ edit' = NoEdit
  /\ ytdTotal' = 0
  /\ recentEntries' = <<>>
  /\ doc0' = sheetsByTitle
  /\ UNCHANGED <<sheetsByTitle, year, ticks, nreq, npipe, hist>>

\* ------------------------------------------------------------------------
\* processExpenseWithAI (lines 81-116): null unless the call succeeds, the
\* content is present and the text parses
\* ------------------------------------------------------------------------
ProcessExpenseWithAI(outcome, value) ==
  IF outcome = "json" THEN value ELSE JsonNull

\* the null check dropped: the pipeline goes on with whatever came back
IsNullish_Never(ed) == FALSE

\* !expenseData
IsNullish(ed) == ed.kind = "null"

\* expenseData.entityType.toUpperCase() throws unless entityType is a string
EntityUpperThrows(ed) == ed.f.entityType.t # "string"

\* ------------------------------------------------------------------------
\* The text pipeline (lines 683-718)
\* ------------------------------------------------------------------------
\* the row written before the text is categorized
TextExpense_AppendFirst ==
  /\ pc = "entry"
  /\ Route(req) = "text"
  /\ Ack(Msg("ack_text", "", 0), "text_append")
  /\ sendFailed' = FALSE
  /\ UNCHANGED procs
  /\ UNCHANGED <<sheetsByTitle, env, sent, calls, locals, hist>>

TextExpense ==
  /\ pc = "entry"
  /\ Route(req) = "text"
  /\ Ack(Msg("ack_text", "", 0), "text_llm")
  /\ sendFailed' = FALSE
  /\ UNCHANGED procs
  /\ UNCHANGED <<sheetsByTitle, env, sent, calls, locals, hist>>

TextCategorize ==
  /\ pc = "text_llm"
  /\ calls' = Append(calls, "llm")
  /\ \E outcome \in LlmOutcomes, value \in LlmValues :
       /\ expenseData' = ProcessExpenseWithAI(outcome, value)
       /\ categorized' = expenseData'
  /\ IF IsNullish(expenseData')
     THEN Reply(Msg("cat_failed_text", "", 0), Ok200("Processing failed"))
     ELSE Goto("text_append")
  /\ sendFailed' = FALSE
  /\ UNCHANGED procs
  /\ UNCHANGED <<sheetsByTitle, env, sent, ocrResult, result, edit, ytdTotal,
                 recentEntries, hist>>

TextAppend ==
  /\ pc = "text_append"
  /\ calls' = Append(calls, "sheets_append")
  /\ \E storeOk \in BOOLEAN :
       LET r == AddExpenseToSheet(sheetsByTitle, expenseData, SHEET1,
                                  IsoDate(year), storeOk)
       IN /\ sheetsByTitle' = r.doc
          /\ result' = r.result
          /\ lastYtd' = IF r.result.success THEN NoYtd ELSE lastYtd
          /\ lastNote' = IF r.result.success THEN NoNote ELSE lastNote
  /\ IF result'.success
     THEN IF EntityUpperThrows(expenseData)
          \* the TypeError leaves the handler through the outer catch
          THEN Finish(Resp(500, "error", "error.message"))
          ELSE Reply(Msg("expense_ok", "", 0), Ok200("Processed successfully"))
     ELSE Reply(Msg("expense_save_error", result'.error, 0),
                Ok200("Processed successfully"))
  /\ sendFailed' = FALSE
  /\ UNCHANGED procs
  /\ UNCHANGED <<env, sent, expenseData, categorized, ocrResult, edit, ytdTotal,
                 recentEntries>>

\* ------------------------------------------------------------------------
\* The photo pipeline (lines 544-680)
\* ------------------------------------------------------------------------
\* const caption = message.caption || ''
CaptionOf(r) == JsOr(r.caption, JsStr(<<>>))
\* caption && caption.trim().length > 0
HasCaption(r) == Truthy(CaptionOf(r)) /\ Len(Trim(CaptionOf(r).s)) > 0

\* the inner catch: reply with the error and return 200
ReceiptError ==
  Reply(Msg("receipt_error", "", 0), Ok200("Receipt processing error"))

PhotoReceipt ==
  /\ pc = "entry"
  /\ Route(req) = "photo"
  /\ Ack(Msg("ack_photo", IF Truthy(CaptionOf(req)) THEN "with notes" ELSE "", 0),
         "get_file")
  /\ sendFailed' = FALSE
  /\ UNCHANGED procs
  /\ UNCHANGED <<sheetsByTitle, env, sent, calls, locals, hist>>

\* lines 560-565: getFile; the fetch or json() throws, or fileData.ok is false
GetFile ==
  /\ pc = "get_file"
  /\ calls' = Append(calls, "get_file")
  /\ \E outcome \in {"ok", "not_ok", "throws"} :
       IF outcome = "ok" THEN Goto("download") ELSE ReceiptError
  /\ sendFailed' = FALSE
  /\ UNCHANGED procs
  /\ UNCHANGED <<sheetsByTitle, env, sent, locals, hist>>

\* lines 567-569: the image download
DownloadImage ==
  /\ pc = "download"
  /\ calls' = Append(calls, "download")
  /\ \E ok \in BOOLEAN : IF ok THEN Goto("ocr") ELSE ReceiptError
  /\ sendFailed' = FALSE
  /\ UNCHANGED procs
  /\ UNCHANGED <<sheetsByTitle, env, sent, locals, hist>>

\* the OCR text of a receipt
RECEIPT_TEXT == <<"r", " ", "9">>
FILE_NAME == <<"f">>
\* lines 576-579: the placeholder when there is no image URL
WithFallback(o) ==
  IF ~Truthy(o.imageUrl)
  THEN [o EXCEPT !.imageUrl = JsStr(SAVED_LOCALLY \o FILE_NAME)] ELSE o

\* the check of ocrResult.text dropped
AfterOcr_NoTextCheck(o) ==
  /\ ocrResult' = WithFallback(o)
  /\ Goto("photo_llm")

\* lines 581-588 and 603: after processReceiptOCR returned o
AfterOcr(o) ==
  /\ ocrResult' = WithFallback(o)
  /\ IF ~Truthy(o.text)
     THEN Reply(Msg("ocr_failed", "", 0), Ok200("OCR failed"))
     ELSE Goto("photo_llm")

\* processReceiptOCR, lines 180-205 and 222-225: text detection; it throws,
\* finds nothing, or finds text (whose description may be empty)
TextDetection ==
  /\ pc = "ocr"
  /\ calls' = Append(calls, "ocr")
  /\ \E outcome \in {"throws", "none", "text", "empty_text"} :
       IF outcome \in {"throws", "none"}
       THEN AfterOcr([text |-> JsUndefined, imageUrl |-> JsUndefined])
       ELSE /\ ocrResult' = [text |-> IF outcome = "text" THEN JsStr(RECEIPT_TEXT)
                                      ELSE JsStr(<<>>),
                             imageUrl |-> JsUndefined]
            /\ Goto("upload")
  /\ sendFailed' = FALSE
  /\ UNCHANGED procs
  /\ UNCHANGED <<sheetsByTitle, env, sent, expenseData, categorized, result, edit,
                 ytdTotal, recentEntries, hist>>

\* saveReceiptToIceDrive, lines 119-176: the public URL, or null when the
\* credentials are missing, the PUT is refused or the fetch throws
SaveReceiptToIceDrive(uploaded) ==
  IF uploaded THEN JsStr(WEBDAV_URL \o <<"/", "r">>) ELSE JsUndefined

\* processReceiptOCR, lines 207-220: upload the image, return text and URL
UploadImage ==
  /\ pc = "upload"
  /\ calls' = Append(calls, "upload")
  /\ \E uploaded \in BOOLEAN :
       AfterOcr([ocrResult EXCEPT !.imageUrl = SaveReceiptToIceDrive(uploaded)])
  /\ sendFailed' = FALSE
  /\ UNCHANGED procs
  /\ UNCHANGED <<sheetsByTitle, env, sent, expenseData, categorized, result, edit,
                 ytdTotal, recentEntries, hist>>

\* lines 616-632: the caption goes into the description, the image URL into
\* receiptUrl
WithCaption(ed, r) ==
  IF HasCaption(r)
  THEN SetField(ed, "suggestedDescription",
                JsStr(ToStr(ed.f.suggestedDescription) \o CAPTION_SEPARATOR
                      \o Trim(CaptionOf(r).s)))
  ELSE ed
\* the receipt reference always set to the upload address
WithReceiptUrl_AlwaysLink(ed, o) ==
  SetField(ed, "receiptUrl", JsStr(WEBDAV_URL \o <<"/", "r">>))

\* lines 625-632
WithReceiptUrl(ed, o) ==
  IF Truthy(o.imageUrl) THEN SetField(ed, "receiptUrl", o.imageUrl)
  ELSE SetField(ed, "receiptUrl", JsStr(<<>>))

PhotoCategorize ==
  /\ pc = "photo_llm"
  /\ calls' = Append(calls, "llm")
  /\ \E outcome \in LlmOutcomes, value \in LlmValues :
       /\ categorized' = ProcessExpenseWithAI(outcome, value)
       /\ expenseData' = IF IsNullish(categorized') THEN categorized'
                         ELSE WithReceiptUrl(WithCaption(categorized', req), ocrResult)
  /\ IF IsNullish(categorized')
     THEN Reply(Msg("cat_failed_receipt", "", 0), Ok200("Processing failed"))
     ELSE Goto("photo_append")
  /\ sendFailed' = FALSE
  /\ UNCHANGED procs
  /\ UNCHANGED <<sheetsByTitle, env, sent, ocrResult, result, edit, ytdTotal,
                 recentEntries, hist>>

\* lines 651-655: what the success reply says about the stored image
StorageLine(o) ==
  IF Truthy(o.imageUrl) /\ StartsWith(ToStr(o.imageUrl), WEBDAV_URL)
  THEN "Receipt stored: View in IceDrive"
  ELSE IF Truthy(o.imageUrl) THEN "Receipt saved to IceDrive"
  ELSE ""

PhotoAppend ==
  /\ pc = "photo_append"
  /\ calls' = Append(calls, "sheets_append")
  /\ \E storeOk \in BOOLEAN :
       LET r == AddExpenseToSheet(sheetsByTitle, expenseData, SHEET1,
                                  IsoDate(year), storeOk)
       IN /\ sheetsByTitle' = r.doc
          /\ result' = r.result
          /\ lastYtd' = IF r.result.success THEN NoYtd ELSE lastYtd
          /\ lastNote' = IF r.result.success THEN NoNote ELSE lastNote
  /\ IF result'.success
     THEN IF EntityUpperThrows(expenseData)
          \* the TypeError is caught by the inner catch
          THEN ReceiptError
          ELSE Reply(Msg("receipt_ok", StorageLine(ocrResult), 0),
                     Ok200("Receipt processed successfully"))
     ELSE Reply(Msg("receipt_save_error", result'.error, 0),
                Ok200("Receipt processed successfully"))
  /\ sendFailed' = FALSE
  /\ UNCHANGED procs
  /\ UNCHANGED <<env, sent, expenseData, categorized, ocrResult, edit, ytdTotal,
                 recentEntries>>

\* ------------------------------------------------------------------------
\* The specification
\* ------------------------------------------------------------------------
Next ==
  \/ NewYear
  \/ \E r \in Requests : Invoke(r)
  \/ MethodShortCircuit
  \/ EntryThrows
  \/ SilentReturn
  \/ CmdStart
  \/ CmdYtd
  \/ YtdCalc
  \/ CmdRecent
  \/ RecentGet
  \/ CmdEdit
  \/ CmdNote
  \/ EditRead
  \/ EditSave
  \/ TextExpense
  \/ TextCategorize
  \/ TextAppend
  \/ PhotoReceipt
  \/ GetFile
  \/ DownloadImage
  \/ TextDetection
  \/ UploadImage
  \/ PhotoCategorize
  \/ PhotoAppend
  \/ SendTelegramMessage
  \/ Return

Spec == Init /\ [][Next]_vars

\* The same handler with the runtime's scheduling stated: once an
\* invocation has started, an awaited call returns or throws and the
\* continuation runs. Nothing obliges the environment to send a request.
FairNext ==
  \/ NewYear
  \/ \E r \in Requests : nreq < MaxFairRequests /\ Invoke(r)
  \/ MethodShortCircuit
  \/ EntryThrows
  \/ SilentReturn
  \/ CmdStart
  \/ CmdYtd
  \/ YtdCalc
  \/ CmdRecent
  \/ RecentGet
  \/ CmdEdit
  \/ CmdNote
  \/ EditRead
  \/ EditSave
  \/ TextExpense
  \/ TextCategorize
  \/ TextAppend
  \/ PhotoReceipt
  \/ GetFile
  \/ DownloadImage
  \/ TextDetection
  \/ UploadImage
  \/ PhotoCategorize
  \/ PhotoAppend
  \/ SendTelegramMessage
  \/ Return

HandlerStep == pc # "idle" /\ FairNext

FairSpec == Init /\ [][FairNext]_vars /\ WF_vars(HandlerStep)

\* ------------------------------------------------------------------------
\* Invocations that overlap: the platform starts one invocation per webhook
\* call and nothing serialises them. Each one runs the '/note' branch
\* (lines 524-541) and editEntry (lines 256-287) at its own pace against
\* the one spreadsheet.
\* ------------------------------------------------------------------------
\* the state of the serial handler, which stands still meanwhile
serial == <<year, ticks, nreq, npipe, pc, req, out, sent, sendFailed, calls, resp,
            locals, doc0, hist>>

\* message.text of the overlapping '/note' requests
ConcurrentNoteTexts ==
  { T_note \o Sp \o <<"2">> \o Sp \o v : v \in {<<"x">>, <<"y">>} }
  \cup { T_note \o Sp \o <<"1">> \o Sp \o <<"x">>, T_note \o Sp \o <<"3">> \o Sp \o <<"x">>,
         T_note \o Sp \o <<"1">> }

\* an authorized POST with text t arrives
InvokeNote(p, t) ==
  /\ procs[p].pc = "idle"
  /\ procs' = [procs EXCEPT ![p] = [NoProc EXCEPT !.pc = "entry", !.text = t]]
  /\ UNCHANGED <<sheetsByTitle, serial>>

\* lines 524-532: parse the command
CmdNoteOf(p) ==
  /\ procs[p].pc = "entry"
  /\ LET args == CommandArgs(procs[p].text)
     IN procs' = [procs EXCEPT ![p] =
          IF ~Truthy(args.entryNumber) \/ args.newValue = <<>>
          THEN [@ EXCEPT !.pc = "send", !.out = Msg("usage_note", "", 0),
                         !.resp = Ok200("Invalid note command")]
          ELSE [@ EXCEPT !.pc = "edit_read",
                         !.edit = [NoEdit EXCEPT !.n = args.entryNumber.n,
                                                 !.field = "notes",
                                                 !.value = args.newValue]]]
  /\ UNCHANGED <<sheetsByTitle, serial>>

\* lines 535-540: the reply after editEntry returned r
NoteReplyOf(q, r) ==
  [q EXCEPT !.pc = "send", !.result = r,
            !.out = IF r.success THEN Msg("note_ok", "", q.edit.n)
                    ELSE Msg("note_error", r.error, q.edit.n),
            !.resp = Ok200("Note processed")]

\* editEntry, lines 257-279: load the document, read the rows, check the
\* range, set the cell on the row object this invocation holds
EditReadOf(p) ==
  /\ procs[p].pc = "edit_read"
  /\ \E storeOk \in BOOLEAN :
       LET q == procs[p]
           early == EditEntryEarlyResult(sheetsByTitle, q.edit.n, storeOk)
           title == PrimarySheet(sheetsByTitle)
       IN procs' = [procs EXCEPT ![p] =
            IF early # NoResult THEN NoteReplyOf(q, early)
            ELSE [q EXCEPT !.pc = "edit_save", !.edit.title = title,
                           !.edit.rows = Len(sheetsByTitle[title]),
                           !.edit.row = EditedRow(sheetsByTitle[title][q.edit.n],
                                                  q.edit.field, q.edit.value)]]
  /\ UNCHANGED <<sheetsByTitle, serial>>

\* editEntry, lines 281-286: await row.save() writes the row object back
EditSaveOf(p) ==
  /\ procs[p].pc = "edit_save"
  /\ \E saveOk \in BOOLEAN :
       LET q == procs[p]
       IN IF saveOk
          THEN /\ sheetsByTitle' = SaveRow(sheetsByTitle, q.edit.title, q.edit.n,
                                           q.edit.row)
               /\ procs' = [procs EXCEPT ![p] = NoteReplyOf(q, Result(TRUE, ""))]
          ELSE /\ sheetsByTitle' = sheetsByTitle
               /\ procs' = [procs EXCEPT ![p] = NoteReplyOf(q, Result(FALSE, ERR_STORE))]
  /\ UNCHANGED serial

\* sendTelegramMessage, lines 358-372, then the return of the response
SendOf(p) ==
  /\ procs[p].pc = "send"
  /\ procs' = [procs EXCEPT ![p] = [@ EXCEPT !.pc = "done",
                                             !.sent = Append(@, procs[p].out),
                                             !.out = Msg("", "", 0)]]
  /\ UNCHANGED <<sheetsByTitle, serial>>

\* the response is handed to the platform
ReturnOf(p) ==
  /\ procs[p].pc = "done"
  /\ procs' = [procs EXCEPT ![p].pc = "returned"]
  /\ UNCHANGED <<sheetsByTitle, serial>>

ConcNext ==
  \/ \E p \in Invocations, t \in ConcurrentNoteTexts : InvokeNote(p, t)
  \/ \E p \in Invocations : CmdNoteOf(p)
  \/ \E p \in Invocations : EditReadOf(p)
  \/ \E p \in Invocations : EditSaveOf(p)
  \/ \E p \in Invocations : SendOf(p)
  \/ \E p \in Invocations : ReturnOf(p)

ConcSpec == Init /\ [][ConcNext]_vars

\* ------------------------------------------------------------------------
\* Properties
\* ------------------------------------------------------------------------
Called(name) == \E i \in 1..Len(calls) : calls[i] = name
SentKind(kind) == \E i \in 1..Len(sent) : sent[i].kind = kind
Running == pc \notin {"idle"}

\* a POST with a JSON object body whose message has text or a photo and
\* carries a chat id
HasContent(r) ==
  /\ r.method = "POST"
  /\ r.bodyKind = "object"
  /\ r.hasMessage
  /\ (Truthy(r.text) \/ r.photo # "absent")
  /\ r.hasChat

\* the sheet the handler appends to, as the document stood at the start
LedgerTitle == AppendTarget(doc0, SHEET1)
LastRow(rows) == rows[Len(rows)]

\* C1: a POST whose message has text or a photo and whose chat id is not in
\* the allow-list sends no chat message (and makes no call), and the
\* response is HTTP 200.
C1_UnauthorizedSilent200 ==
  (Running /\ HasContent(req) /\ req.chatId \notin AUTHORIZED_CHAT_IDS)
    => /\ sent = <<>>
       /\ pc \in {"entry", "done"}
       /\ pc = "done" => resp.statusCode = 200

C1_Witness ==
  /\ pc = "done"
  /\ HasContent(req)
  /\ req.chatId \notin AUTHORIZED_CHAT_IDS
  /\ req.text = JsStr(CMD_START)
  /\ resp = Ok200("Unauthorized")

\* processReceiptOCR came back without text in this invocation
OcrNoText == Called("ocr") /\ pc # "upload" /\ ~Truthy(ocrResult.text)

\* C2: when OCR returns no text for an authorized photo message,
\* processExpenseWithAI is never called, no row is appended, and the reply
\* is the OCR message, not the 'Could not categorize' message.
C2_OcrFailureStopsPipeline ==
  OcrNoText
    => /\ ~Called("llm")
       /\ ~Called("sheets_append")
       /\ sheetsByTitle = doc0
       /\ ~SentKind("cat_failed_receipt")
       /\ pc \in {"send", "done"}
       /\ pc = "send" => out.msg.kind = "ocr_failed"
       /\ pc = "done" => /\ sent[Len(sent)].kind = "ocr_failed"
                         /\ resp = Ok200("OCR failed")

C2_Witness ==
  /\ pc = "done"
  /\ OcrNoText
  /\ ~Called("upload")
  /\ sent[Len(sent)].kind = "ocr_failed"

\* the record categorization returned is a related-party Contract Labor
\* payment with a numeric amount
IsContractLaborPayment(ed) ==
  /\ ed.f.entityType = JsStr(FAMILY_LLC)
  /\ ed.f.businessType = JsStr(BUSINESS)
  /\ ed.f.category = JsStr(CONTRACT_LABOR)
  /\ ed.f.amount.t = "number"

\* C3: a successful addExpenseToSheet of a family_llc / business /
\* 'Contract Labor' record of amount a raises what calculateYTDPayments
\* returns by exactly a.
C3_AppendRaisesYTD ==
  [][(pc \in {"text_append", "photo_append"} /\ result'.success
        /\ IsContractLaborPayment(expenseData))
       => CalculateYTDPayments(sheetsByTitle', year, TRUE)
            = CalculateYTDPayments(sheetsByTitle, year, TRUE)
              + expenseData.f.amount.n]_vars

\* C4: two successive notes edits x then y of the same entry, with no other
\* write in between, leave Work Description = previous value (if any), x, y,
\* in that order, joined by ' | '.
C4_NotesAppendInOrder ==
  [][(pc = "edit_save" /\ result'.success /\ edit.field = "notes"
        /\ lastNote.valid /\ lastNote.n = edit.n)
       => sheetsByTitle'[edit.title][edit.n].WorkDescription
            = JsStr((IF Truthy(lastNote.prev)
                     THEN ToStr(lastNote.prev) \o NOTE_SEPARATOR ELSE <<>>)
                    \o lastNote.x \o NOTE_SEPARATOR \o edit.value)]_vars

C4_Witness ==
  /\ pc = "done"
  /\ result.success
  /\ edit.field = "notes"
  /\ edit.value = <<"y">>
  /\ lastNote.prev = JsStr(<<"w", " ", "|", " ", "x">>)
  /\ sheetsByTitle[SHEET1][2].WorkDescription
       = JsStr(<<"w", " ", "|", " ", "x", " ", "|", " ", "y">>)

\* editEntry was called with an entry number outside 1..rowCount of the
\* ledger as it stood
EditOutOfRange ==
  /\ edit.field # ""
  /\ PrimarySheet(doc0) # ""
  /\ (edit.n < 1 \/ edit.n > Len(doc0[PrimarySheet(doc0)]))

\* C5: editEntry with an entry number below 1 or above the number of ledger
\* rows returns {success: false}, with the 'Entry #n not found' error once
\* it has read the rows, and changes no row.
C5_OutOfRangeEditRejected ==
  (EditOutOfRange /\ pc \in {"send", "done"})
    => /\ ~result.success
       /\ sheetsByTitle = doc0
       /\ ~Called("sheets_save")
       /\ edit.rows >= 0 => result = Result(FALSE, ERR_ENTRY_NOT_FOUND)
       /\ (edit.rows >= 0 /\ pc = "done")
            => /\ sent[Len(sent)].detail = ERR_ENTRY_NOT_FOUND
               /\ sent[Len(sent)].n = edit.n

C5_Witness ==
  /\ pc = "done"
  /\ EditOutOfRange
  /\ edit.n = 3
  /\ edit.rows = 2
  /\ result = Result(FALSE, ERR_ENTRY_NOT_FOUND)

\* the text pipeline appended a row in this invocation
TextRowAppended ==
  /\ pc \in {"send", "done"}
  /\ Called("llm")
  /\ ~Called("ocr")
  /\ result.success

\* C6: the row the text pipeline appends has Amount, Category and
\* Deductible % equal to what categorization returned.
C6_RowMatchesCategorization ==
  TextRowAppended
    => /\ LedgerTitle # ""
       /\ Len(sheetsByTitle[LedgerTitle]) = Len(doc0[LedgerTitle]) + 1
       /\ LastRow(sheetsByTitle[LedgerTitle]).Amount = categorized.f.amount
       /\ LastRow(sheetsByTitle[LedgerTitle]).Category = categorized.f.category
       /\ LastRow(sheetsByTitle[LedgerTitle]).DeductiblePct
            = categorized.f.deductibilityPercentage

C6_Witness ==
  /\ pc = "done"
  /\ TextRowAppended
  /\ categorized = LaborRecord
  /\ LastRow(sheetsByTitle[LedgerTitle]).DeductiblePct = JsNum(100)
  /\ LastRow(sheetsByTitle[LedgerTitle]).Category = JsStr(CONTRACT_LABOR)

\* C7: calculateYTDPayments changes no row, and two calls with no ledger
\* write (and no new year) in between return the same value.
C7_YtdIdempotent ==
  [][pc = "ytd_calc"
       => /\ sheetsByTitle' = sheetsByTitle
          /\ lastYtd.valid => ytdTotal' = lastYtd.value]_vars

\* C8: OPTIONS returns 200 without body, GET returns 200 with the health
\* JSON, any method other than OPTIONS, GET and POST returns 405 with
\* {error: 'Method not allowed'}; none of them sends a message or touches
\* the ledger.
C8_MethodStatus ==
  (Running /\ req.method # "POST")
    => /\ sent = <<>>
       /\ calls = <<>>
       /\ sheetsByTitle = doc0
       /\ pc \in {"entry", "done"}
       /\ pc = "done"
            => resp = CASE req.method = "OPTIONS" -> Resp(200, "none", "")
                        [] req.method = "GET"
                             -> Resp(200, "health", "S-Corp Expense Tracker is running on Netlify!")
                        [] OTHER -> Resp(405, "error", "Method not allowed")

C8_Witness ==
  /\ pc = "done"
  /\ req.method = "OPTIONS"
  /\ resp = Resp(200, "none", "")

\* an authorized POST whose message has text or a photo
AuthorizedContent == HasContent(req) /\ req.chatId \in AUTHORIZED_CHAT_IDS

C10_WellFormedNever500 ==
  (pc = "done" /\ req.method = "POST" /\ req.bodyKind = "object"
     /\ req.hasMessage /\ req.hasChat /\ req.text.t \in {"string", "undefined"})
    => resp.statusCode = 200

\* C19: a failed sendTelegramMessage changes nothing of the rest of the
\* request: after the send, whether it was delivered or not, the handler
\* stands at the step that follows the call (or has returned the response
\* prepared before the call), and the send itself writes no ledger row and
\* changes no local.
C19_SendFailureChangesNothing ==
  [][pc = "send"
       => /\ pc' = (IF out.next = "return" THEN "done" ELSE out.next)
          /\ resp' = (IF out.next = "return" THEN out.resp ELSE resp)
          /\ UNCHANGED <<sheetsByTitle, locals>>]_vars

C19_Witness ==
  /\ pc = "done"
  /\ sendFailed
  /\ Len(sent) = 2
  /\ sent[2].kind = "expense_ok"
  /\ resp = Ok200("Processed successfully")
  /\ Len(sheetsByTitle[LedgerTitle]) = Len(doc0[LedgerTitle]) + 1

\* the branch an invocation took, read off what it did first
BranchTaken ==
  IF sent = <<>> THEN "no-op"
  ELSE CASE sent[1].kind = "start" -> "/start"
         [] sent[1].kind = "ytd" -> "/ytd"
         [] sent[1].kind \in {"recent_none", "recent_list"} -> "/recent"
         [] sent[1].kind \in {"usage_edit", "edit_ok", "edit_error"} -> "/edit"
         [] sent[1].kind \in {"usage_note", "note_ok", "note_error"} -> "/note"
         [] sent[1].kind = "ack_photo" -> "receipt pipeline"
         [] sent[1].kind = "ack_text" -> "categorization pipeline"
         [] OTHER -> "?"

\* the first matching rule of the routing order, for a POST whose text is
\* absent or a string
FirstMatchingRule(r) ==
  IF ~r.hasMessage \/ (~Truthy(r.text) /\ r.photo = "absent") THEN "no-op"
  ELSE IF r.chatId \notin AUTHORIZED_CHAT_IDS THEN "no-op"
  ELSE IF r.text = JsStr(CMD_START) THEN "/start"
  ELSE IF r.text = JsStr(CMD_YTD) THEN "/ytd"
  ELSE IF r.text = JsStr(CMD_RECENT) THEN "/recent"
  ELSE IF r.text.t = "string" /\ StartsWith(r.text.s, EDIT_PREFIX) THEN "/edit"
  ELSE IF r.text.t = "string" /\ StartsWith(r.text.s, NOTE_PREFIX) THEN "/note"
  ELSE IF r.photo = "nonempty" THEN "receipt pipeline"
  ELSE IF r.text.t = "string" /\ r.text.s # <<>> /\ ~StartsWith(r.text.s, SLASH)
  THEN "categorization pipeline"
  ELSE "no-op"

\* C11: for every POST (JSON object body, text absent or a string, a chat
\* on every message) the branch taken is the first matching rule of the
\* routing order, for every combination of text, caption and photo list,
\* a text together with an empty photo list included.
C11_FirstMatchWins ==
  (pc = "done" /\ req.method = "POST" /\ req.bodyKind = "object"
     /\ (req.hasMessage => req.hasChat)
     /\ req.text.t \in {"string", "undefined"})
    => BranchTaken = FirstMatchingRule(req)

\* the text is an /edit or /note command, bare or with arguments
IsEditCommand(s) ==
  \/ s \in {T_edit, T_note}
  \/ StartsWith(s, EDIT_PREFIX)
  \/ StartsWith(s, NOTE_PREFIX)

\* the second word is a positive integer in decimal digits and something
\* other than blanks follows it
HasIndexAndText(s) ==
  LET parts == Split(s)
  IN /\ Len(parts) >= 3
     /\ parts[2] # <<>>
     /\ \A i \in 1..Len(parts[2]) : IsDigit(parts[2][i])
     /\ DigitsToNat(parts[2], Len(parts[2])) >= 1
     /\ Trim(Join(Slice2(parts))) # <<>>

\* C12: for an authorized /edit or /note command, editEntry is called only
\* when the index is a positive integer and the trailing text is non-empty;
\* every other form of the command (the bare command included) gets the
\* usage-error reply and leaves every ledger row as it was.
C12_MalformedEditGetsUsageReply ==
  (pc = "done" /\ HasContent(req) /\ req.chatId \in AUTHORIZED_CHAT_IDS
     /\ req.text.t = "string" /\ IsEditCommand(req.text.s)
     /\ ~HasIndexAndText(req.text.s))
    => /\ edit.field = ""
       /\ Len(sent) = 1
       /\ sent[1].kind \in {"usage_edit", "usage_note"}
       /\ sheetsByTitle = doc0

\* calls of the LLM in this invocation
LlmCalls == Cardinality({i \in 1..Len(calls) : calls[i] = "llm"})

\* processExpenseWithAI has returned null in this invocation
CategorizationFailed ==
  /\ Called("llm")
  /\ pc \notin {"text_llm", "photo_llm"}
  /\ categorized.kind = "null"

\* C13: when processExpenseWithAI fails (call not ok, exception, content
\* missing, text that is no JSON) it returns null; in that request no ledger
\* row is appended, the LLM is called exactly once, and the handler sends
\* the failure reply before it returns.
C13_CategorizationFailureIsTerminal ==
  /\ \A outcome \in LlmOutcomes \ {"json"}, value \in LlmValues :
       ProcessExpenseWithAI(outcome, value) = JsonNull
  /\ CategorizationFailed
       => /\ LlmCalls = 1
          /\ ~Called("sheets_append")
          /\ sheetsByTitle = doc0
          /\ pc \in {"send", "done"}
          /\ pc = "send" => out.msg.kind \in {"cat_failed_text", "cat_failed_receipt"}
          /\ pc = "done"
               => /\ sent[Len(sent)].kind \in {"cat_failed_text", "cat_failed_receipt"}
                  /\ resp = Ok200("Processing failed")

C13_Witness ==
  /\ pc = "done"
  /\ CategorizationFailed
  /\ sent[Len(sent)].kind = "cat_failed_text"
  /\ resp = Ok200("Processing failed")

\* addExpenseToSheet or editEntry has returned {success: false, error} in
\* this invocation
WriteFailed ==
  /\ \/ Called("sheets_append")
     \/ edit.field # "" /\ pc \notin {"edit_read", "edit_save"}
  /\ ~result.success

\* C14: addExpenseToSheet and editEntry do not throw: with the sheet
\* missing, the store unreachable or the write rejected, each returns
\* {success: false, error} with an error text, no row is changed, the
\* handler relays that error text in a chat message, and the response is
\* HTTP 200.
C14_WriteFailureIsRelayed ==
  WriteFailed
    => /\ result.error # ""
       /\ sheetsByTitle = doc0
       /\ pc \in {"send", "done"}
       /\ pc = "send" => out.msg.detail = result.error
       /\ pc = "done"
            => /\ sent[Len(sent)].kind \in {"expense_save_error", "receipt_save_error",
                                            "edit_error", "note_error"}
               /\ sent[Len(sent)].detail = result.error
               /\ resp.statusCode = 200

C14_Witness ==
  /\ pc = "done"
  /\ WriteFailed
  /\ edit.field = "notes"
  /\ result.error = ERR_STORE
  /\ sent[Len(sent)].detail = ERR_STORE
  /\ resp = Ok200("Note processed")

\* sheet names a caller may pass
SheetNames == {SHEET1, MASTER_SHEET, FAMILY_LLC_SHEET, "Archive"}

\* doc and after differ by exactly one row appended at the end of sheet title
OneRowAppendedTo(doc, after, title) ==
  /\ DOMAIN after = DOMAIN doc
  /\ Len(after[title]) = Len(doc[title]) + 1
  /\ SubSeq(after[title], 1, Len(doc[title])) = doc[title]
  /\ \A t \in DOMAIN doc \ {title} : after[t] = doc[t]

\* what addExpenseToSheet(record, name) does to document doc, store reachable
AppendResolves(doc, record, name) ==
  LET r == AddExpenseToSheet(doc, record, name, IsoDate(year), TRUE)
  IN IF name \in DOMAIN doc
     THEN r.result.success /\ OneRowAppendedTo(doc, r.doc, name)
     ELSE IF MASTER_SHEET \in DOMAIN doc
     THEN r.result.success /\ OneRowAppendedTo(doc, r.doc, MASTER_SHEET)
     ELSE ~r.result.success /\ r.doc = doc

\* C15: addExpenseToSheet(record, sheetName) appends to the sheet named
\* sheetName when it exists, otherwise to 'Master Sheet' when that exists,
\* otherwise returns {success: false} and appends nowhere; it never appends
\* to more than one sheet. Checked for every sheet name on every document
\* the ledger is left in between two invocations, and on the appends the
\* handler makes (sheetName = 'Sheet1').
C15_AppendResolvesSheet ==
  /\ pc = "idle"
       => \A name \in SheetNames, record \in LlmValues \ {JsonNull} :
            AppendResolves(sheetsByTitle, record, name)
  /\ (Called("sheets_append") /\ result.success)
       => IF SHEET1 \in DOMAIN doc0 THEN OneRowAppendedTo(doc0, sheetsByTitle, SHEET1)
          ELSE /\ MASTER_SHEET \in DOMAIN doc0
               /\ OneRowAppendedTo(doc0, sheetsByTitle, MASTER_SHEET)
  /\ (Called("sheets_append") /\ ~result.success) => sheetsByTitle = doc0

C15_Witness ==
  /\ pc = "done"
  /\ Called("sheets_append")
  /\ result.success
  /\ SHEET1 \notin DOMAIN doc0
  /\ OneRowAppendedTo(doc0, sheetsByTitle, MASTER_SHEET)

\* a reference that is a URL
IsUrl(v) == v.t = "string" /\ StartsWith(v.s, <<"h", "t", "t", "p">>)

\* OCR returned text and the upload of the image failed in this invocation
UploadFailedWithText ==
  /\ Called("upload")
  /\ pc # "upload"
  /\ Truthy(ocrResult.text)
  /\ ~IsUrl(ocrResult.imageUrl)

\* C16: for an authorized photo message where OCR returns text and the
\* image upload fails, categorization is still called with the OCR text at
\* hand; when categorization and the append succeed, the row saved has a
\* receipt reference that is empty or the placeholder, never a URL; and the
\* upload failure alone causes no failure reply (the success reply follows
\* whenever the categorization result is usable and the append succeeds).
C16_UploadFailureNonFatal ==
  UploadFailedWithText
    => /\ ocrResult.text = JsStr(RECEIPT_TEXT)
       /\ ~SentKind("ocr_failed")
       /\ pc = "send" => out.msg.kind # "ocr_failed"
       /\ pc # "photo_llm" => Called("llm")
       /\ (Called("sheets_append") /\ result.success)
            => /\ ~IsUrl(LastRow(sheetsByTitle[LedgerTitle]).ReceiptURL)
               /\ LastRow(sheetsByTitle[LedgerTitle]).ReceiptURL
                    \in {JsStr(<<>>), JsStr(SAVED_LOCALLY \o FILE_NAME)}
       /\ (pc = "done" /\ result.success /\ categorized.f.entityType.t = "string")
            => /\ sent[Len(sent)].kind = "receipt_ok"
               /\ resp = Ok200("Receipt processed successfully")

C16_Witness ==
  /\ pc = "done"
  /\ UploadFailedWithText
  /\ categorized = LaborRecord
  /\ result.success
  /\ LastRow(sheetsByTitle[LedgerTitle]).ReceiptURL = JsStr(SAVED_LOCALLY \o FILE_NAME)
  /\ sent[Len(sent)].kind = "receipt_ok"

\* Amount of a row as a number, 0 when it does not parse
AmountOrZero(row) ==
  IF ParseFloat(row.Amount).t = "number" THEN ParseFloat(row.Amount).n ELSE 0

RECURSIVE SumAmounts(_)
SumAmounts(rows) ==
  IF rows = <<>> THEN 0 ELSE AmountOrZero(Head(rows)) + SumAmounts(Tail(rows))

\* the sum of Amount over the rows of 'Family LLC' dated in year y with
\* Category 'Contract Labor'; 0 without the sheet
ContractLaborSum(doc, y) ==
  IF FAMILY_LLC_SHEET \notin DOMAIN doc THEN 0
  ELSE LET Counts(row) == /\ GetFullYear(row.Date).t = "number"
                          /\ GetFullYear(row.Date).n = y
                          /\ row.Category = JsStr(CONTRACT_LABOR)
       IN SumAmounts(SelectSeq(doc[FAMILY_LLC_SHEET], Counts))

\* C17: calculateYTDPayments returns the sum of Amount over exactly the rows
\* of the 'Family LLC' sheet dated in the current calendar year with
\* Category 'Contract Labor' (an Amount that does not parse counts 0, a row
\* whose Date does not parse is left out), and 0 when the sheet is missing.
C17_YtdIsContractLaborSum ==
  [][pc = "ytd_calc" => ytdTotal' = ContractLaborSum(sheetsByTitle, year)]_vars

\* C18: after every successful write of a family_llc 'Contract Labor'
\* record the handler computes the year-to-date total (a read of the
\* ledger after the append) and the reply carries that running total, with
\* the low-balance warning when the total is near STANDARD_DEDUCTION_2025.
C18_RunningTotalAfterLaborWrite ==
  (pc = "done" /\ Called("sheets_append") /\ result.success
     /\ IsContractLaborPayment(categorized))
    => /\ Called("sheets_read")
       /\ \E i \in 1..Len(sent) :
            /\ sent[i].kind \in {"ytd", "running_total"}
            /\ sent[i].n = CalculateYTDPayments(sheetsByTitle, year, TRUE)

\* the limits getRecentEntries is checked with: some below the number of
\* rows a ledger reaches, and the default
RecentLimits == {1, 2, 3, RECENT_LIMIT}

Min(a, b) == IF a <= b THEN a ELSE b

\* got is the last min(limit, rowCount) rows of rows, the newest first
IsLastRowsNewestFirst(got, rows, limit) ==
  /\ Len(got) = Min(limit, Len(rows))
  /\ \A i \in 1..Len(got) : got[i] = EntrySummary(rows[Len(rows) + 1 - i])

\* what getRecentEntries(limit) returns on document doc
RecentAsClaimed(doc, limit) ==
  /\ GetRecentEntries(doc, limit, FALSE) = <<>>
  /\ IF SHEET1 \in DOMAIN doc
     THEN IsLastRowsNewestFirst(GetRecentEntries(doc, limit, TRUE), doc[SHEET1], limit)
     ELSE IF MASTER_SHEET \in DOMAIN doc
     THEN IsLastRowsNewestFirst(GetRecentEntries(doc, limit, TRUE), doc[MASTER_SHEET], limit)
     ELSE GetRecentEntries(doc, limit, TRUE) = <<>>

\* the /recent branch has called getRecentEntries in this invocation
RecentCalled == req.text = JsStr(CMD_RECENT) /\ Called("sheets_read")

\* C20: getRecentEntries(limit), for a limit of 1 or more, returns the last
\* min(limit, rowCount) rows of the primary ledger, the most recently
\* appended first; it returns the empty list when the sheet is missing or
\* the store fails; and it changes no row. Checked on the function for
\* every document the ledger is left in between two invocations, and on
\* the call '/recent' makes.
C20_RecentIsLastRowsReversed ==
  /\ pc = "idle" => \A limit \in RecentLimits : RecentAsClaimed(sheetsByTitle, limit)
  /\ RecentCalled
       => /\ sheetsByTitle = doc0
          /\ \/ recentEntries = <<>>
             \/ /\ PrimarySheet(doc0) # ""
                /\ IsLastRowsNewestFirst(recentEntries, doc0[PrimarySheet(doc0)],
                                         RECENT_LIMIT)

C20_Witness ==
  /\ pc = "done"
  /\ RecentCalled
  /\ Len(recentEntries) = 3
  /\ recentEntries[1].amount = JsNum(200)
  /\ recentEntries[3].amount = JsStr(<<"4", "0">>)
  /\ Len(GetRecentEntries(sheetsByTitle, 2, TRUE)) = 2

\* the rows of the primary sheet with the position of each row written into
\* its Description, so that a listing tells which row an entry came from
Numbered(doc) ==
  LET title == PrimarySheet(doc)
  IN [doc EXCEPT ![title] =
        [i \in 1..Len(doc[title]) |-> [doc[title][i] EXCEPT !.Description = JsNum(i)]]]

\* the position in the sheet of the row '/recent' lists as number n
ListedRow(doc, n) == GetRecentEntries(Numbered(doc), RECENT_LIMIT, TRUE)[n].description.n

EditSucceeded ==
  /\ pc \in {"send", "done"}
  /\ Route(req) \in {"edit", "note"}
  /\ result.success

\* C21: with at least two rows in the ledger, the row changed by
\* '/edit n <text>' or '/note n <text>' is the row '/recent' lists as
\* number n.
C21_EditActsOnListedRow ==
  (EditSucceeded /\ Len(doc0[edit.title]) >= 2
     /\ edit.n \in 1..Len(GetRecentEntries(doc0, RECENT_LIMIT, TRUE)))
    => \A i \in 1..Len(doc0[edit.title]) :
         sheetsByTitle[edit.title][i] # doc0[edit.title][i]
           => i = ListedRow(doc0, edit.n)

\* the rows of all sheets of the document
RowCount(doc) ==
  (IF SHEET1 \in DOMAIN doc THEN Len(doc[SHEET1]) ELSE 0)
  + (IF MASTER_SHEET \in DOMAIN doc THEN Len(doc[MASTER_SHEET]) ELSE 0)
  + (IF FAMILY_LLC_SHEET \in DOMAIN doc THEN Len(doc[FAMILY_LLC_SHEET]) ELSE 0)

\* C22: no step of any request removes a row or a sheet: the row count of
\* every sheet never decreases, and from its start to any later point one
\* request has added at most one row to the document.
C22_NoRowDeletedOneAppend ==
  [][ /\ DOMAIN sheetsByTitle' = DOMAIN sheetsByTitle
      /\ \A t \in DOMAIN sheetsByTitle : Len(sheetsByTitle'[t]) >= Len(sheetsByTitle[t])
      /\ RowCount(sheetsByTitle') <= RowCount(doc0') + 1 ]_vars

\* a request that appends a row after an earlier request edited the ledger
C22_Witness ==
  /\ pc = "done"
  /\ nreq = 2
  /\ doc0 \notin InitialDocs
  /\ RowCount(sheetsByTitle) = RowCount(doc0) + 1

\* the row the running request appended to the ledger, if it appended one
AppendedInRequest ==
  /\ LedgerTitle # ""
  /\ Len(sheetsByTitle[LedgerTitle]) > Len(doc0[LedgerTitle])

\* C23: every row the handler stores has an amount of at least 0 and a
\* deductibility percentage between 0 and 100, whatever JSON object the LLM
\* returned; an answer outside these bounds is not appended as it is.
C23_StoredRowsWithinBounds ==
  AppendedInRequest
    => LET row == LastRow(sheetsByTitle[LedgerTitle])
       IN /\ row.Amount.t = "number" /\ row.Amount.n >= 0
          /\ row.DeductiblePct.t = "number"
          /\ row.DeductiblePct.n >= 0 /\ row.DeductiblePct.n <= 100

\* sub occurs in s
Contains(s, sub) ==
  \E i \in 0..(Len(s) - Len(sub)) : SubSeq(s, i + 1, i + Len(sub)) = sub

\* invocations p and q both added a note to the same entry and returned
BothNotesSaved(p, q) ==
  /\ p # q
  /\ procs[p].pc \in {"done", "returned"} /\ procs[q].pc \in {"done", "returned"}
  /\ procs[p].result.success /\ procs[q].result.success
  /\ procs[p].edit.n = procs[q].edit.n

\* C24: when two '/note n' requests for the same entry are handled by
\* invocations that overlap, the Work Description of row n ends up
\* containing both notes, in every interleaving.
C24_ConcurrentNotesBothKept ==
  \A p, q \in Invocations :
    BothNotesSaved(p, q)
      => LET cell == sheetsByTitle[procs[p].edit.title][procs[p].edit.n].WorkDescription
         IN /\ Contains(ToStr(cell), procs[p].edit.value)
            /\ Contains(ToStr(cell), procs[q].edit.value)

\* the external calls of the two pipelines in the order of the code
TextOrder == <<"telegram", "llm", "sheets_append", "telegram">>
PhotoOrder ==
  <<"telegram", "get_file", "download", "ocr", "upload", "llm", "sheets_append",
    "telegram">>
IsPrefix(s, t) == Len(s) <= Len(t) /\ SubSeq(t, 1, Len(s)) = s
\* the calls without the reply that ends the request
BeforeReply(s) ==
  IF Len(s) > 1 /\ s[Len(s)] = "telegram" THEN SubSeq(s, 1, Len(s) - 1) ELSE s
\* the first position of a call, 0 when it was not made
FirstCall(name) ==
  IF Called(name) THEN CHOOSE i \in 1..Len(calls) :
                         calls[i] = name /\ \A j \in 1..(i - 1) : calls[j] # name
  ELSE 0
InPipeline == pc # "idle" /\ Route(req) \in {"photo", "text"}

\* C25: in the text and photo pipelines the external calls of one request
\* are made one after another in the fixed order acknowledgement, [file
\* lookup, download, OCR, upload,] categorization, append, reply; a request
\* that fails stops there and sends its reply. A row is appended only after
\* categorization returned a non-null value, and a receipt is categorized
\* only after OCR returned text.
C25_CallsInPipelineOrder ==
  InPipeline
    => /\ IF Route(req) = "text" THEN IsPrefix(BeforeReply(calls), TextOrder)
          ELSE \/ IsPrefix(BeforeReply(calls), PhotoOrder)
               \/ BeforeReply(calls) = <<"telegram", "get_file", "download", "ocr">>
       /\ Called("sheets_append")
            => /\ categorized.kind = "object"
               /\ FirstCall("llm") > 0 /\ FirstCall("llm") < FirstCall("sheets_append")
       /\ (Route(req) = "photo" /\ Called("llm"))
            => /\ Truthy(ocrResult.text)
               /\ FirstCall("ocr") > 0 /\ FirstCall("ocr") < FirstCall("llm")

\* a receipt that went through every call of the photo pipeline
C25_Witness ==
  /\ pc = "done"
  /\ Route(req) = "photo"
  /\ calls = PhotoOrder
  /\ Len(sent) = 2

\* C26: every invocation that started returns a response with status 200,
\* 405 or 500, given that every external call returns or throws; the
\* response is set once, when the handler returns, and stays until the
\* invocation is over.
C26_EveryInvocationResponds ==
  /\ (pc = "entry") ~> (pc = "done" /\ resp.statusCode \in {200, 405, 500})
  /\ [][resp' # resp => \/ (resp = NoResp /\ pc' = "done")
                        \/ (pc = "done" /\ pc' = "idle" /\ resp' = NoResp)]_vars

\* a receipt whose download failed: the inner catch replies and returns
C26_Witness ==
  /\ pc = "done"
  /\ Route(req) = "photo"
  /\ calls = <<"telegram", "get_file", "download", "telegram">>
  /\ resp = Ok200("Receipt processing error")

SuccessReplies == {"expense_ok", "receipt_ok"}
ErrorReplies ==
  {"receipt_error", "expense_save_error", "receipt_save_error", "cat_failed_text",
   "cat_failed_receipt", "ocr_failed"}
LastSentIn(kinds) == sent # <<>> /\ sent[Len(sent)].kind \in kinds

\* C27: in the text and photo pipelines a request that appended a row ends
\* with the success reply and status 200, whatever non-null value
\* categorization returned; a request that ends with an error reply or an
\* error status appended no row.
C27_AppendImpliesSuccessReply ==
  (pc = "done" /\ Route(req) \in {"photo", "text"})
    => /\ AppendedInRequest
            => LastSentIn(SuccessReplies) /\ resp.statusCode = 200
       /\ (LastSentIn(ErrorReplies) \/ resp.statusCode >= 400)
            => ~AppendedInRequest

\* a POST whose message names a sender that is not in the allow-list
FromUnlistedSender(r) ==
  /\ r.method = "POST"
  /\ r.bodyKind = "object"
  /\ r.hasMessage /\ r.hasChat
  /\ ~IsAuthorized(r.chatId)

\* C28: while a POST from a sender outside the allow-list is handled, no
\* external call of any kind is made (LLM, OCR, storage, ledger, Telegram)
\* and the ledger stays as it was.
C28_UnlistedSenderNoExternalCall ==
  (Running /\ FromUnlistedSender(req))
    => /\ calls = <<>>
       /\ out = NoOut
       /\ sheetsByTitle = doc0
       /\ categorized = JsonNull /\ ocrResult = NoOcr /\ result = NoResult

\* a receipt photo from an unlisted sender, answered without any call
C28_Witness ==
  /\ pc = "done"
  /\ FromUnlistedSender(req)
  /\ req.photo = "nonempty"
  /\ calls = <<>>
  /\ resp = Ok200("Unauthorized")

\* C29: the success reply of the photo pipeline says the receipt was stored
\* or saved to IceDrive only when the upload succeeded; after a failed
\* upload the reply says nothing of the kind.
C29_StorageLineOnlyAfterUpload ==
  (pc = "done" /\ Route(req) = "photo" /\ LastSentIn({"receipt_ok"}))
    => LET line == sent[Len(sent)].detail
       IN /\ line # "" => IsUrl(ocrResult.imageUrl)
          /\ UploadFailedWithText => line = ""

Columns ==
  {"Date", "Vendor", "Category", "Amount", "BusinessType", "Entity", "DeductiblePct",
   "TaxNotes", "Description", "WorkDescription", "ReceiptURL"}
\* the column editEntry sets for a field name, "" for a name it does not know
ColumnOf(field) ==
  IF field = "description" THEN "Description"
  ELSE IF field = "notes" THEN "WorkDescription" ELSE ""

\* before and after have the same sheets and the same rows in the same
\* order, apart from column col of row n of sheet title
OnlyCellChanged(before, after, title, n, col) ==
  /\ DOMAIN after = DOMAIN before
  /\ \A t \in DOMAIN before \ {title} : after[t] = before[t]
  /\ Len(after[title]) = Len(before[title])
  /\ \A i \in 1..Len(before[title]) : i # n => after[title][i] = before[title][i]
  /\ \A c \in Columns \ {col} : after[title][n][c] = before[title][n][c]

\* the document after a successful editEntry(n, field, v) on doc
AfterEditEntry(doc, n, field, v) ==
  SaveRow(doc, PrimarySheet(doc), n, EditedRow(doc[PrimarySheet(doc)][n], field, v))

EditFieldNames == {"description", "notes", "amount", ""}

\* C30: a successful editEntry(n, 'description', v) changes only the
\* Description of row n, a successful editEntry(n, 'notes', v) only its
\* Work Description; the other columns, the other rows, their number and
\* order stay, and any other field name changes nothing.
C30_EditChangesOnlyTargetCell ==
  /\ EditSucceeded
       => /\ OnlyCellChanged(doc0, sheetsByTitle, edit.title, edit.n, ColumnOf(edit.field))
          /\ edit.field = "description"
               => sheetsByTitle[edit.title][edit.n].Description = JsStr(edit.value)
  /\ (pc = "idle" /\ PrimarySheet(sheetsByTitle) # "")
       => \A n \in 1..Len(sheetsByTitle[PrimarySheet(sheetsByTitle)]) :
            \A field \in EditFieldNames :
              LET after == AfterEditEntry(sheetsByTitle, n, field, <<"z">>)
              IN /\ OnlyCellChanged(sheetsByTitle, after, PrimarySheet(sheetsByTitle), n,
                                    ColumnOf(field))
                 /\ ColumnOf(field) = "" => after = sheetsByTitle

\* '/edit 1 a' rewrote the Description of row 1 of a ledger of several rows
C30_Witness ==
  /\ pc = "done"
  /\ Route(req) = "edit"
  /\ result.success
  /\ edit.n = 1
  /\ Len(doc0[edit.title]) >= 2
  /\ doc0[edit.title][1].Description # JsStr(edit.value)
  /\ sheetsByTitle[edit.title][1].Description = JsStr(edit.value)

====
